---- MODULE Spec2Model ----
(***************************************************************************)
(* Serene python client: the endpoint proxies with their lru caches        *)
(* (serene/endpoints.py) and the Octopus entity                            *)
(* (serene/elements/octopus.py).                                           *)
(*                                                                         *)
(* SpecCache   : one endpoint proxy of a chosen kind, its server and its   *)
(*               caches, driven by get / items / columns / upload /        *)
(*               update / remove.                                          *)
(* SpecOctopus : one Octopus object driven by construction, update         *)
(*               (hydration), add, remove and OctopusEndpoint.upload.      *)
(***************************************************************************)
EXTENDS Integers, Sequences, FiniteSets, TLC

\* ---- bounds of the model ----
MaxKey == 2          \* remote identifiers are 1..MaxKey
MaxMut == 2          \* calls of mutating endpoint methods in one run
MaxMembers == 2      \* SSDs and Ontologies one Octopus holds
MaxModel == 2        \* contents the Model of one key can have
MaxProps == 2        \* entries of one modeling_props dict
MaxPropVal == 3      \* largest modeling property, in halves
MaxNodes == 2        \* nodes of one Karma graph
MaxLinks == 2        \* links of one Karma graph
MaxAlign == 2        \* edges of the alignment graph
MaxEdgeRecs == 2     \* lines of edges.json
MaxGraphs == 2       \* lines of graphs.json
MaxPairs == 2        \* items of one __variable_mapping

\* ---- program constants ----
LruMaxSize == 32     \* @lru_cache(maxsize=32)
UpdateArity == 5     \* Octopus.update: parameters after json
EndpointUpdateArgs == 1  \* OctopusEndpoint passes (blob, self._session)

Kinds == {"dataset", "model", "ontology", "ssd", "octopus"}
Keys == 1..MaxKey
None == 0

VARIABLES
    ep,            \* kind of the endpoint proxy under test
    srv,           \* server: key -> [present, gen]
    itemsCache,    \* lru cache of the `items` property
    getCache,      \* lru cache of `get`, least recently used first
    columnsCache,  \* lru cache of DataSetEndpoint.columns
    muts,          \* number of mutating endpoint calls made so far
    mutStamp,      \* muts when the last mutating call returned normally
    mutErr,        \* how the last mutating call ended ("none": no such call)
    seen,          \* key -> result of get(key) since the last mutator call
    last,          \* the last call: operation, argument, outcome, requests
    octo,          \* the Octopus object
    run,           \* the blocking call in progress and the server's training
    karma,         \* convert_karma_graph: its argument and what it built
    peer,          \* `items` entries of a second proxy and of another class
    patterns       \* get_patterns: the files it reads and the csv it writes

vars == <<ep, srv, itemsCache, getCache, columnsCache, muts, mutStamp,
          mutErr, seen, last, octo, run, karma, peer, patterns>>

\* ---------------------------------------------------------------------
\* Server (session api of one entity kind)
\* ---------------------------------------------------------------------
RECURSIVE KeysFrom(_)
KeysFrom(k) ==
    IF k \notin DOMAIN srv THEN <<>>
    ELSE IF srv[k].present THEN <<k>> \o KeysFrom(k + 1)
    ELSE KeysFrom(k + 1)

\* api.keys(): the identifiers on the server, in the server's order
ApiKeys == KeysFrom(1)

\* api.item(key): the JSON blob of a stored entity
ApiItem(k) == [id |-> k, gen |-> srv[k].gen]

\* api.post / api.update: the server writes the entity under key k
SrvWrite(k) == [srv EXCEPT ![k] = [present |-> TRUE, gen |-> srv[k].gen + 1]]

\* api.delete(key)
SrvDelete(k) == [srv EXCEPT ![k].present = FALSE]

\* ---------------------------------------------------------------------
\* Entities held by an endpoint
\* ---------------------------------------------------------------------
\* A python object is told from every other by the call that made it
\* (origin), the key it was made for and the number of mutating calls made
\* before it (born): the get cache keeps what it holds and the items cache
\* is only emptied by a mutating call, so no call makes two objects for one
\* key between two mutating calls.
NoObj == [id |-> None, gen |-> 0, born |-> 0, origin |-> "none"]

\* DataSet(json), Model(json, session), Ontology().update(json), SSD.update(json, ..)
Hydrate(origin, born, blob) ==
    [id |-> blob.id, gen |-> blob.gen, born |-> born, origin |-> origin]

\* DataSet.columns of a hydrated DataSet
ColumnsOf(d) == {<<d.id, d.gen>>}

\* Octopus.update(self, json, session, dataset_endpoint, model_endpoint,
\*                ontology_endpoint, ssd_endpoint): python binds the call only
\* when all five parameters after json are passed
UpdateBinds(nargs) == nargs = UpdateArity

EmptyCache == [valid |-> FALSE, val |-> <<>>]
EmptyColumns == [valid |-> FALSE, born |-> 0, cols |-> {}]

\* nothing cached for the second proxy and for the proxy of another class
NoPeer == [items |-> EmptyCache, other |-> EmptyCache]

\* decache.wrapper clearing the cache only once func has returned
DecacheAfterCall(cache, raised) == IF raised THEN cache ELSE EmptyCache

\* decache.wrapper: type(self).items.fget.cache_clear(), then func(...).
\* The items cache after the wrapped call, whether or not func raised.
DecacheWrapper(cache, raised) == EmptyCache

Call(op, arg, err, val, reqs, prev) ==
    [op |-> op, arg |-> arg, err |-> err, val |-> val, reqs |-> reqs,
     prev |-> prev, cols |-> {}, sent |-> None]

NotSeen == [k \in DOMAIN srv |-> <<>>]

\* ---------------------------------------------------------------------
\* items
\* ---------------------------------------------------------------------
\* requests of one element of the items loop
ItemReqs == IF ep = "ontology" THEN <<"owl_file", "item">> ELSE <<"item">>

RECURSIVE LoopReqs(_)
LoopReqs(n) == IF n = 0 THEN <<>> ELSE ItemReqs \o LoopReqs(n - 1)

\* Evaluation of self.items: the lru cache answers when it holds the tuple;
\* else keys() and one item(k) per key, each blob hydrated to a new object.
\* OctopusEndpoint.items hydrates with Octopus().update(blob, self._session).
ItemsCall ==
    IF itemsCache.valid
    THEN [err |-> "ok", val |-> itemsCache.val, reqs |-> <<>>,
          cache |-> itemsCache]
    ELSE LET keys == ApiKeys IN
         IF ep = "octopus" /\ Len(keys) > 0 /\ ~UpdateBinds(EndpointUpdateArgs)
         THEN [err |-> "TypeError", val |-> <<>>, reqs |-> <<"keys", "item">>,
               cache |-> itemsCache]
         ELSE LET val == [i \in 1..Len(keys) |->
                             Hydrate("items", muts, ApiItem(keys[i]))]
              IN [err |-> "ok", val |-> val,
                  reqs |-> <<"keys">> \o LoopReqs(Len(keys)),
                  cache |-> [valid |-> TRUE, val |-> val]]

Items ==
    LET r == ItemsCall IN
    /\ itemsCache' = r.cache
    /\ last' = Call("items", None, r.err, r.val, r.reqs, <<>>)
    /\ UNCHANGED <<patterns, peer, run, karma, ep, srv, getCache, columnsCache, muts, mutStamp, mutErr,
                   seen, octo>>

\* `items` read through a second proxy of the same class: its entry of the
\* same lru cache, filled from the same server
PeerItems ==
    LET keys == ApiKeys
        val == [i \in 1..Len(keys) |-> Hydrate("peer", muts, ApiItem(keys[i]))]
    IN
    /\ IF peer.items.valid
       THEN /\ last' = Call("peer.items", None, "ok", peer.items.val, <<>>, <<>>)
            /\ UNCHANGED peer
       ELSE IF ep = "octopus" /\ Len(keys) > 0 /\ ~UpdateBinds(EndpointUpdateArgs)
       THEN /\ last' = Call("peer.items", None, "TypeError", <<>>,
                            <<"keys", "item">>, <<>>)
            /\ UNCHANGED peer
       ELSE /\ last' = Call("peer.items", None, "ok", val,
                            <<"keys">> \o LoopReqs(Len(keys)), <<>>)
            /\ peer' = [peer EXCEPT !.items = [valid |-> TRUE, val |-> val]]
    /\ UNCHANGED <<patterns, run, karma, ep, srv, itemsCache, getCache, columnsCache,
                   muts, mutStamp, mutErr, seen, octo>>

\* `items` read through the proxy of another endpoint class: the lru cache
\* of that class's own items function
OtherItems ==
    LET val == <<Hydrate("other", muts, [id |-> 1, gen |-> 0])>> IN
    /\ last' = Call("other.items", None, "ok", val,
                    IF peer.other.valid THEN <<>> ELSE <<"keys", "item">>, <<>>)
    /\ peer' = [peer EXCEPT !.other =
                    IF @.valid THEN @ ELSE [valid |-> TRUE, val |-> val]]
    /\ UNCHANGED <<patterns, run, karma, ep, srv, itemsCache, getCache, columnsCache,
                   muts, mutStamp, mutErr, seen, octo>>

\* DataSetEndpoint.columns: lru cached, built from self.items
Columns ==
    /\ ep = "dataset"
    /\ IF columnsCache.valid
       THEN /\ last' = [Call("columns", None, "ok",
                             <<[NoObj EXCEPT !.born = columnsCache.born,
                                             !.origin = "columns"]>>,
                             <<>>, <<>>)
                        EXCEPT !.cols = columnsCache.cols]
            /\ UNCHANGED <<itemsCache, columnsCache>>
       ELSE LET r == ItemsCall
                cols == UNION {ColumnsOf(r.val[i]) : i \in DOMAIN r.val}
            IN /\ itemsCache' = r.cache
               /\ columnsCache' = [valid |-> TRUE, born |-> muts, cols |-> cols]
               /\ last' = [Call("columns", None, "ok",
                                <<[NoObj EXCEPT !.born = muts,
                                                !.origin = "columns"]>>,
                                r.reqs, <<>>)
                           EXCEPT !.cols = cols]
    /\ UNCHANGED <<patterns, peer, run, karma, ep, srv, getCache, muts, mutStamp, mutErr,
                   seen, octo>>

\* ---------------------------------------------------------------------
\* get
\* ---------------------------------------------------------------------
InGetCache(k) == \E i \in DOMAIN getCache : getCache[i].key = k
CacheIdx(k) == CHOOSE i \in DOMAIN getCache : getCache[i].key = k
Without(s, i) == [j \in 1..(Len(s) - 1) |-> IF j < i THEN s[j] ELSE s[j + 1]]

\* a hit that leaves the entry where it is (first in, first out)
LruTouchKeepsPlace(k) == getCache

\* lru_cache hit: the entry becomes the most recently used
LruTouch(k) ==
    LET i == CacheIdx(k) IN Append(Without(getCache, i), getCache[i])

\* lru_cache miss: the result is stored, the least recently used entry
\* is dropped when the cache is full
LruInsert(k, o) ==
    LET c == IF Len(getCache) >= LruMaxSize THEN Tail(getCache) ELSE getCache
    IN Append(c, [key |-> k, obj |-> o])

Matching(val, k) == {i \in DOMAIN val : val[i].id = k}
FirstMatch(val, k) ==
    val[CHOOSE i \in Matching(val, k) : \A j \in Matching(val, k) : i <= j]

GetDone(k, err, val, reqs) ==
    /\ last' = Call("get", k, err, val, reqs, seen[k])
    /\ seen' = [seen EXCEPT ![k] = <<[err |-> err, val |-> val]>>]

\* DataSetEndpoint.get, ModelEndpoint.get, SSDEndpoint.get:
\* @lru_cache, a miss hydrates api.item(key)
GetByItem(k) ==
    /\ ep \in {"dataset", "model", "ssd"}
    /\ IF InGetCache(k)
       THEN /\ getCache' = LruTouch(k)
            /\ GetDone(k, "ok", <<getCache[CacheIdx(k)].obj>>, <<>>)
       ELSE IF ~srv[k].present
       THEN /\ GetDone(k, "ServerError", <<>>, <<"item">>)
            /\ UNCHANGED getCache
       ELSE LET o == Hydrate("get", muts, ApiItem(k)) IN
            /\ getCache' = LruInsert(k, o)
            /\ GetDone(k, "ok", <<o>>, <<"item">>)
    /\ UNCHANGED <<patterns, peer, run, karma, ep, srv, itemsCache, columnsCache, muts, mutStamp, mutErr, octo>>

\* OntologyEndpoint.get (not cached) and OctopusEndpoint.get (@lru_cache):
\* a scan of self.items for the key, an Exception when it is not there
GetByScan(k) ==
    /\ ep \in {"ontology", "octopus"}
    /\ IF ep = "octopus" /\ InGetCache(k)
       THEN /\ getCache' = LruTouch(k)
            /\ GetDone(k, "ok", <<getCache[CacheIdx(k)].obj>>, <<>>)
            /\ UNCHANGED itemsCache
       ELSE LET r == ItemsCall IN
            /\ itemsCache' = r.cache
            /\ IF r.err # "ok"
               THEN /\ GetDone(k, r.err, <<>>, r.reqs)
                    /\ UNCHANGED getCache
               ELSE IF Matching(r.val, k) = {}
               THEN /\ GetDone(k, "NotFound", <<>>, r.reqs)
                    /\ UNCHANGED getCache
               ELSE /\ GetDone(k, "ok", <<FirstMatch(r.val, k)>>, r.reqs)
                    /\ getCache' = IF ep = "octopus"
                                   THEN LruInsert(k, FirstMatch(r.val, k))
                                   ELSE getCache
    /\ UNCHANGED <<patterns, peer, run, karma, ep, srv, columnsCache, muts, mutStamp, mutErr, octo>>

\* ---------------------------------------------------------------------
\* The Octopus entity (serene/elements/octopus.py)
\* ---------------------------------------------------------------------
ModelTypeValues == {"randomForest", "gradientBoostedTrees"}
SamplingStrategyValues == {"NoResampling", "ResampleToMean"}

\* an SSD or Ontology object as the Octopus sees it, or any other value
LocalMember(kind) == [kind |-> kind, id |-> None, stored |-> FALSE]
StoredMember(kind, id) == [kind |-> kind, id |-> id, stored |-> TRUE]
Members(kind) == {LocalMember(kind)} \cup {StoredMember(kind, 1)}
OtherValue == [kind |-> "other", id |-> None, stored |-> FALSE]

\* a python list, or None
NoneList == [set |-> FALSE, elems |-> <<>>]
List(s) == [set |-> TRUE, elems |-> s]

\* Model objects the model endpoint can return for a key
ModelOf(id, v) ==
    [id |-> id,
     features |-> <<"features", v>>,
     model_type |-> IF v % 2 = 1 THEN "gradientBoostedTrees" ELSE "randomForest",
     resampling_strategy |-> IF v % 2 = 1 THEN "ResampleToMean" ELSE "NoResampling",
     num_bags |-> 50 + v,
     bag_size |-> 100 + v]
NoModel ==
    [id |-> None, features |-> <<>>, model_type |-> "None",
     resampling_strategy |-> "None", num_bags |-> 0, bag_size |-> 0]

\* convert_datetime(json['dateCreated'])
ConvertDatetime(s) == <<"datetime", s>>
NoDate == <<>>

\* a constructor handing out an object that claims to be stored
NewOctopusStored(ssds, ontologies, feature_config, model_type, resampling_strategy) ==
    [id |-> None, stored |-> TRUE,
     date_created |-> NoDate, date_modified |-> NoDate,
     ssds |-> ssds, ontologies |-> ontologies,
     name |-> "", description |-> "",
     feature_config |-> feature_config,
     model_type |-> model_type,
     resampling_strategy |-> resampling_strategy,
     num_bags |-> 10, bag_size |-> 10,
     modeling_props |-> "None",
     model_id |-> None, matcher |-> NoModel,
     semantic_type_map |-> "None", state |-> "None",
     session |-> FALSE]

\* Octopus.__init__ after the two enum checks
NewOctopus(ssds, ontologies, feature_config, model_type, resampling_strategy) ==
    [id |-> None, stored |-> FALSE,
     date_created |-> NoDate, date_modified |-> NoDate,
     ssds |-> ssds, ontologies |-> ontologies,
     name |-> "", description |-> "",
     feature_config |-> feature_config,
     model_type |-> model_type,
     resampling_strategy |-> resampling_strategy,
     num_bags |-> 10, bag_size |-> 10,
     modeling_props |-> "None",
     model_id |-> None, matcher |-> NoModel,
     semantic_type_map |-> "None", state |-> "None",
     session |-> FALSE]

\* json blobs of an Octopus as the server sends them
OctopusJson ==
    [id : Keys,
     name : {"octo"}, description : {"from server"},
     dateCreated : {"2017-01-01"}, dateModified : {"2017-01-02"},
     ssds : {<<>>, <<1>>}, ontologies : {<<1>>},
     lobsterID : {1}, modelingProps : {"None"},
     semanticTypeMap : {"map"}, state : {"untrained"}]

\* update trusting a feature configuration the object already holds
LocalFeatureConfig(o, model) ==
    IF o.feature_config # <<>> THEN o.feature_config ELSE model.features

\* self._feature_config = self._matcher.features
ImpliedFeatureConfig(o, model) == model.features

\* Octopus.update(json, session, dataset_endpoint, model_endpoint,
\* ontology_endpoint, ssd_endpoint).  model is what model_endpoint.get
\* returns; failAt names the endpoint get that raises ("none": no one does),
\* the assignments before it have then been made.
OctopusUpdate(o, json, model, failAt) ==
    LET a == [o EXCEPT
                !.session = TRUE, !.stored = TRUE,
                !.name = json.name, !.description = json.description,
                !.date_created = ConvertDatetime(json.dateCreated),
                !.date_modified = ConvertDatetime(json.dateModified),
                !.id = json.id]
        b == [a EXCEPT !.ssds =
                List([i \in DOMAIN json.ssds |-> StoredMember("ssd", json.ssds[i])])]
        c == [b EXCEPT
                !.ontologies = List([i \in DOMAIN json.ontologies |->
                                        StoredMember("ontology", json.ontologies[i])]),
                !.model_id = json.lobsterID]
        d == [c EXCEPT
                !.matcher = model,
                !.modeling_props = json.modelingProps,
                !.semantic_type_map = json.semanticTypeMap,
                !.state = json.state,
                !.feature_config = ImpliedFeatureConfig(c, model),
                !.model_type = model.model_type,
                !.resampling_strategy = model.resampling_strategy,
                !.num_bags = model.num_bags,
                !.bag_size = model.bag_size]
    IN CASE failAt = "ssd" -> a
         [] failAt = "ontology" -> b
         [] failAt = "model" -> c
         [] OTHER -> d

\* add() giving up the stored flag before it looks at the type
AddFlaggingFirst(o, v) ==
    LET f == [o EXCEPT !.stored = FALSE] IN
    IF v.kind = "ssd"
    THEN IF ~o.ssds.set THEN [err |-> "AttributeError", o |-> f]
         ELSE [err |-> "ok", o |-> [f EXCEPT !.ssds.elems = Append(@, v)]]
    ELSE IF v.kind = "ontology"
    THEN IF ~o.ontologies.set THEN [err |-> "AttributeError", o |-> f]
         ELSE [err |-> "ok", o |-> [f EXCEPT !.ontologies.elems = Append(@, v)]]
    ELSE [err |-> "ValueError", o |-> f]

\* Octopus.add(value)
OctopusAdd(o, v) ==
    LET f == [o EXCEPT !.stored = FALSE] IN
    IF v.kind = "ssd"
    THEN IF ~o.ssds.set THEN [err |-> "AttributeError", o |-> f]
         ELSE [err |-> "ok", o |-> [f EXCEPT !.ssds.elems = Append(@, v)]]
    ELSE IF v.kind = "ontology"
    THEN IF ~o.ontologies.set THEN [err |-> "AttributeError", o |-> f]
         ELSE [err |-> "ok", o |-> [f EXCEPT !.ontologies.elems = Append(@, v)]]
    ELSE [err |-> "ValueError", o |-> o]

\* list.remove(x): the first element equal to x goes
ListRemove(s, v) ==
    LET i == CHOOSE i \in DOMAIN s :
                 s[i] = v /\ \A j \in DOMAIN s : s[j] = v => i <= j
    IN Without(s, i)
Has(s, v) == \E i \in DOMAIN s : s[i] = v

\* remove() that leaves the stored flag as it was
RemoveKeepingStored(o, v) ==
    IF v.kind = "ssd"
    THEN IF ~o.ssds.set THEN [err |-> "AttributeError", o |-> o]
         ELSE IF ~Has(o.ssds.elems, v) THEN [err |-> "ValueError", o |-> o]
         ELSE [err |-> "ok", o |-> [o EXCEPT !.ssds.elems = ListRemove(@, v)]]
    ELSE IF v.kind = "ontology"
    THEN IF ~o.ontologies.set THEN [err |-> "AttributeError", o |-> o]
         ELSE IF ~Has(o.ontologies.elems, v) THEN [err |-> "ValueError", o |-> o]
         ELSE [err |-> "ok", o |-> [o EXCEPT !.ontologies.elems = ListRemove(@, v)]]
    ELSE [err |-> "ValueError", o |-> o]

\* Octopus.remove(value)
OctopusRemove(o, v) ==
    LET f == [o EXCEPT !.stored = FALSE] IN
    IF v.kind = "ssd"
    THEN IF ~o.ssds.set THEN [err |-> "AttributeError", o |-> f]
         ELSE IF ~Has(o.ssds.elems, v) THEN [err |-> "ValueError", o |-> f]
         ELSE [err |-> "ok", o |-> [f EXCEPT !.ssds.elems = ListRemove(@, v)]]
    ELSE IF v.kind = "ontology"
    THEN IF ~o.ontologies.set THEN [err |-> "AttributeError", o |-> f]
         ELSE IF ~Has(o.ontologies.elems, v) THEN [err |-> "ValueError", o |-> f]
         ELSE [err |-> "ok", o |-> [f EXCEPT !.ontologies.elems = ListRemove(@, v)]]
    ELSE [err |-> "ValueError", o |-> o]

\* ---------------------------------------------------------------------
\* Mutating endpoint operations, all wrapped by @decache
\* ---------------------------------------------------------------------
\* outcome of a mutating server call: "ok"; "refused": it fails and the
\* server is as before; "lost": the server applied it, the reply failed
Outcomes == {"ok", "refused", "lost"}

FreeKeys == {k \in DOMAIN srv : ~srv[k].present}

\* what every @decache method leaves behind: the items cache cleared,
\* the get and columns caches as they were
MutDone(call) ==
    /\ muts < MaxMut
    /\ muts' = muts + 1
    /\ itemsCache' = DecacheWrapper(itemsCache, call.err # "ok")
    /\ peer' = [peer EXCEPT !.items = DecacheWrapper(@, call.err # "ok")]
    /\ last' = call
    /\ seen' = NotSeen
    /\ mutStamp' = IF call.err = "ok" THEN muts + 1 ELSE mutStamp
    /\ mutErr' = call.err
    /\ UNCHANGED <<patterns, run, karma, ep, getCache, columnsCache>>

ArgError == IF ep = "ssd" THEN "AssertionError" ELSE "ValueError"

\* DataSetEndpoint.upload, OntologyEndpoint.upload, SSDEndpoint.upload
Upload(argOk, outcome) ==
    /\ ep \in {"dataset", "ontology", "ssd"}
    /\ IF ~argOk
       THEN /\ outcome = "refused"
            /\ MutDone(Call("upload", None, ArgError, <<>>, <<>>, <<>>))
            /\ UNCHANGED srv
       ELSE IF outcome = "refused"
       THEN /\ MutDone(Call("upload", None, "ServerError", <<>>, <<"post">>, <<>>))
            /\ UNCHANGED srv
       ELSE \E k \in FreeKeys :
            /\ srv' = SrvWrite(k)
            /\ IF outcome = "lost"
               THEN MutDone(Call("upload", None, "ServerError", <<>>,
                                 <<"post">>, <<>>))
               ELSE MutDone(Call("upload", None, "ok",
                                 <<Hydrate("upload", muts + 1,
                                           [id |-> k, gen |-> srv[k].gen + 1])>>,
                                 <<"post">>, <<>>))
    /\ UNCHANGED octo

\* values handed to remove / update
IntArg(k) == [type |-> "int", kind |-> "int", id |-> k]
EntityArg(kind, id) == [type |-> "entity", kind |-> kind, id |-> id]
StrArg == [type |-> "str", kind |-> "str", id |-> 1]
WrongKind == IF ep = "dataset" THEN "ssd" ELSE "dataset"
CallArgs ==
    {IntArg(k) : k \in Keys}
    \cup {EntityArg(ep, id) : id \in Keys \cup {None}}
    \cup {EntityArg(WrongKind, 1), StrArg}

\* _apply taking an object of any entity class for one of its own
ApplyAnyEntity(value) ==
    IF value.type \in {"int", "entity"} THEN [err |-> "ok", key |-> value.id]
    ELSE [err |-> "TypeError", key |-> None]

\* IdentifiableEndpoint._apply(func, value): the key func is called with,
\* or a TypeError
Apply(value) ==
    IF value.type = "int" THEN [err |-> "ok", key |-> value.id]
    ELSE IF value.type = "entity" /\ value.kind = ep
    THEN [err |-> "ok", key |-> value.id]
    ELSE [err |-> "TypeError", key |-> None]

\* remove(value) of every endpoint: self._apply(self._api.delete, value)
Remove(value, outcome) ==
    LET a == Apply(value)
        call(err, reqs) ==
            [Call("remove", value, err, <<>>, reqs, <<>>) EXCEPT !.sent = a.key]
    IN
    /\ UNCHANGED octo
    /\ IF a.err # "ok"
       THEN /\ outcome = "refused"
            /\ MutDone(call(a.err, <<>>))
            /\ UNCHANGED srv
       ELSE IF outcome = "refused" \/ a.key \notin DOMAIN srv
               \/ ~srv[a.key].present
       THEN /\ outcome = "refused"
            /\ MutDone(call("ServerError", <<"delete">>))
            /\ UNCHANGED srv
       ELSE /\ srv' = SrvDelete(a.key)
            /\ MutDone(call(IF outcome = "ok" THEN "ok" ELSE "ServerError",
                            <<"delete">>))

\* OntologyEndpoint.update(ontology): the ontology is written again
Update(value, outcome) ==
    /\ ep = "ontology"
    /\ IF ~(value.type = "entity" /\ value.kind = "ontology")
       THEN /\ outcome = "refused"
            /\ MutDone(Call("update", value, "ValueError", <<>>, <<>>, <<>>))
            /\ UNCHANGED srv
       ELSE IF \/ outcome = "refused"
               \/ value.id \notin DOMAIN srv
               \/ ~srv[value.id].present
       THEN /\ outcome = "refused"
            /\ MutDone(Call("update", value, "ServerError", <<>>, <<"update">>, <<>>))
            /\ UNCHANGED srv
       ELSE /\ srv' = SrvWrite(value.id)
            /\ IF outcome = "lost"
               THEN MutDone(Call("update", value, "ServerError", <<>>,
                                 <<"update">>, <<>>))
               ELSE MutDone(Call("update", value, "ok",
                                 <<Hydrate("update", muts + 1,
                                           [id |-> value.id,
                                            gen |-> srv[value.id].gen + 1])>>,
                                 <<"update">>, <<>>))
    /\ UNCHANGED octo

\* the first problem the two loops of OctopusEndpoint.upload meet
UploadCheck(o) ==
    IF ~o.ssds.set THEN "TypeError"
    ELSE IF \E i \in DOMAIN o.ssds.elems : ~o.ssds.elems[i].stored
    THEN "ValueError"
    ELSE IF ~o.ontologies.set THEN "TypeError"
    ELSE IF \E i \in DOMAIN o.ontologies.elems : ~o.ontologies.elems[i].stored
    THEN "ValueError"
    ELSE "ok"

\* the response of octopus_api.post for the posted object
PostResponse(o, k, st) ==
    [id |-> k, name |-> "octo", description |-> "from server",
     dateCreated |-> "2017-01-01", dateModified |-> "2017-01-02",
     ssds |-> [i \in DOMAIN o.ssds.elems |-> o.ssds.elems[i].id],
     ontologies |-> [i \in DOMAIN o.ontologies.elems |-> o.ontologies.elems[i].id],
     lobsterID |-> 1, modelingProps |-> "None",
     semanticTypeMap |-> "map", state |-> st]

\* OctopusEndpoint.upload(octopus)
UploadOctopus(outcome, v) ==
    LET chk == UploadCheck(octo)
        call(err, val, reqs, resp) ==
            [Call("upload", None, err, val, reqs, <<>>) EXCEPT !.sent = resp]
    IN
    /\ ep = "octopus"
    /\ IF chk # "ok"
       THEN /\ outcome = "refused" /\ v = 1
            /\ MutDone(call(chk, <<>>, <<>>, None))
            /\ UNCHANGED <<srv, octo>>
       ELSE IF outcome = "refused"
       THEN /\ v = 1
            /\ MutDone(call("ServerError", <<>>, <<"post">>, None))
            /\ UNCHANGED <<srv, octo>>
       ELSE \E k \in FreeKeys :
            /\ srv' = SrvWrite(k)
            /\ IF outcome = "lost"
               THEN /\ v = 1
                    /\ MutDone(call("ServerError", <<>>, <<"post">>, None))
                    /\ UNCHANGED octo
               ELSE IF ~UpdateBinds(EndpointUpdateArgs)
               THEN /\ v = 1
                    /\ MutDone(call("TypeError", <<>>, <<"post">>, k))
                    /\ UNCHANGED octo
               ELSE /\ octo' = OctopusUpdate(octo, PostResponse(octo, k, "untrained"),
                                             ModelOf(1, v), "none")
                    /\ MutDone(call("ok", <<NoObj>>, <<"post">>, k))

\* ---------------------------------------------------------------------
\* Calls on the Octopus object
\* ---------------------------------------------------------------------
EntityDone(call) ==
    /\ last' = call
    /\ UNCHANGED <<patterns, peer, run, karma, ep, srv, itemsCache, getCache, columnsCache, muts,
                   mutStamp, mutErr, seen>>

MemberLists == {NoneList, List(<<>>)}

FeatureConfigs == {<<>>, <<"features", 0>>}
BadEnumArgs == {<<"bogus", "NoResampling">>, <<"randomForest", "bogus">>}

\* Octopus(ssds=.., ontologies=.., feature_config=.., model_type=..,
\*         resampling_strategy=..)
Construct(ssds, ontologies, fc, mt, rs) ==
    /\ IF mt \notin ModelTypeValues \/ rs \notin SamplingStrategyValues
       THEN /\ EntityDone(Call("Octopus()", None, "ValueError", <<>>, <<>>,
                               <<mt, rs>>))
            /\ UNCHANGED octo
       ELSE /\ octo' = NewOctopus(ssds, ontologies, fc, mt, rs)
            /\ EntityDone(Call("Octopus()", None, "ok", <<>>, <<>>, <<mt, rs>>))

\* octopus.update(json, session, dataset_endpoint, model_endpoint,
\*                ontology_endpoint, ssd_endpoint), as _get_state calls it
OctoUpdate(json, v, failAt) ==
    /\ failAt = "ssd" => json.ssds # <<>>
    /\ failAt = "ontology" => json.ontologies # <<>>
    /\ octo' = OctopusUpdate(octo, json, ModelOf(json.lobsterID, v), failAt)
    /\ EntityDone([Call("Octopus.update", json.id,
                        IF failAt = "none" THEN "ok" ELSE "ServerError",
                        <<>>, <<>>, <<octo.feature_config>>)
                   EXCEPT !.sent = ModelOf(json.lobsterID, v)])

AddValues == Members("ssd") \cup Members("ontology") \cup {OtherValue}

\* octopus.add(value)
OctoAdd(v) ==
    LET r == OctopusAdd(octo, v) IN
    /\ Len(octo.ssds.elems) + Len(octo.ontologies.elems) < MaxMembers
    /\ octo' = r.o
    /\ EntityDone(Call("Octopus.add", v, r.err, <<>>, <<>>, <<>>))

\* octopus.remove(value)
OctoRemove(v) ==
    LET r == OctopusRemove(octo, v) IN
    /\ octo' = r.o
    /\ EntityDone(Call("Octopus.remove", v, r.err, <<>>, <<>>, <<>>))

DefaultOctopus == NewOctopus(NoneList, NoneList, <<>>, "randomForest", "NoResampling")

\* no call in progress, nothing asked of the server yet
NoRun ==
    [pc |-> "idle", status |-> "untrained", trains |-> 0, observed |-> "none",
     waited |-> FALSE]
NoKarma ==
    [done |-> FALSE, data |-> <<>>, out |-> <<>>, runs |-> 0, first |-> <<>>,
     left |-> 0, other |-> FALSE]

\* ---------------------------------------------------------------------
\* Modeling properties
\* ---------------------------------------------------------------------
\* Numbers are counted in halves: Halves(1) is 1.0, 3 is 1.5.
Halves(x) == 2 * x
PropValues == (0 - 1)..MaxPropVal
Inf == MaxPropVal + 1      \* inf: above every number

CountProps == {"mappingBranchFactor", "numCandidateMappings",
               "topkSteinerTrees", "numSemanticTypes"}
WeightProps == {"confidenceWeight", "coherenceWeight", "sizeWeight"}
PropNames == CountProps \cup WeightProps \cup {"unknownThreshold"}

\* modeling_props: None, or a dict of at most MaxProps entries
NoProps == [isDict |-> FALSE, d |-> <<>>]
Dict(f) == [isDict |-> TRUE, d |-> f]
ModelingProps ==
    {NoProps} \cup
    {Dict(f) : f \in UNION {[S -> PropValues] :
                    S \in {T \in SUBSET PropNames : Cardinality(T) <= MaxProps}}}

\* in_range with both ends always excluded
InRangeOpen(x, a, b, inclusive) == a < x /\ x < b

\* in_range(x, a, b, inclusive)
InRange(x, a, b, inclusive) ==
    IF inclusive THEN a <= x /\ x <= b ELSE a < x /\ x < b

\* prop_in_range(name, a, b, inclusive): TRUE when it raises
PropInRange(props, name, a, b, inclusive) ==
    IF name \notin DOMAIN props.d THEN FALSE
    ELSE ~InRange(props.d[name], a, b, inclusive)

\* Octopus.check_modeling_props()
CheckModelingProps(o) ==
    IF ~o.modeling_props.isDict THEN "ok"
    ELSE IF \/ \E name \in CountProps :
                   PropInRange(o.modeling_props, name, 0, Inf, FALSE)
            \/ \E name \in WeightProps :
                   PropInRange(o.modeling_props, name, 0, Halves(1), TRUE)
    THEN "ValueError"
    ELSE "ok"

\* self._modeling_props = modeling_props
WithProps(o, props) == [o EXCEPT !.modeling_props = props]

\* Octopus(modeling_props=props): the first call of the object's life
ConstructProps(props) ==
    /\ last.op = "init"
    /\ octo' = WithProps(DefaultOctopus, props)
    /\ EntityDone(Call("Octopus()", props, "ok", <<>>, <<>>,
                       <<"randomForest", "NoResampling">>))

\* octopus.check_modeling_props()
CheckProps ==
    /\ last.op # "init"
    /\ UNCHANGED octo
    /\ EntityDone(Call("check_modeling_props", octo.modeling_props,
                       CheckModelingProps(octo), <<>>, <<>>, <<>>))

\* ---------------------------------------------------------------------
\* Training, pattern export and prediction
\* ---------------------------------------------------------------------
\* Status of the server's training of one octopus
Statuses == {"untrained", "busy", "complete", "error"}
Terminal == {"complete", "error"}

\* what the server's status can be right after a train request
TrainRequested(status) == {"untrained", "busy", status}

\* the json blob of the octopus under training
ServerJson(st) ==
    [id |-> 1, name |-> "octo", description |-> "from server",
     dateCreated |-> "2017-01-01", dateModified |-> "2017-01-02",
     ssds |-> <<1>>, ontologies |-> <<1>>, lobsterID |-> 1,
     modelingProps |-> "None", semanticTypeMap |-> "map", state |-> st]

\* _get_state(): item(self.id), then update with the six arguments
GetState(o, st) == OctopusUpdate(o, ServerJson(st), ModelOf(1, 1), "none")

HydratedOctopus == GetState(DefaultOctopus, "untrained")

\* is_finished leaving the loop on every status but busy
IsFinishedUnlessBusy(st) == st # "busy"

\* is_finished(): status in {Status.COMPLETE, Status.ERROR}
IsFinished(st) == st \in {"complete", "error"}

\* the test of train and get_patterns looking at the session only
NotReadyWithoutSession(o) == ~o.session

\* not self._stored or self._session is None
NotReady(o) == ~o.stored \/ ~o.session

\* a Python bool as a returned value
Bool(b) == IF b THEN "True" ELSE "False"

RunReturns(call) ==
    /\ last' = call
    /\ UNCHANGED <<peer, karma, ep, srv, itemsCache, getCache, columnsCache,
                   muts, mutStamp, mutErr, seen>>

\* the same for a call that writes no file
RunDone(call) ==
    /\ RunReturns(call)
    /\ UNCHANGED patterns

\* octopus.train(), up to the first test of the loop
TrainCall ==
    /\ run.pc = "idle"
    /\ IF NotReady(octo)
       THEN /\ RunDone(Call("train", None, "Exception", <<>>, <<>>, <<>>))
            /\ UNCHANGED <<octo, run>>
       ELSE /\ \E st \in TrainRequested(run.status) :
                 run' = [pc |-> "polling", status |-> st, trains |-> 1,
                         observed |-> "none", waited |-> FALSE]
            /\ RunDone(Call("train.request", octo.id, "ok", <<>>, <<"train">>, <<>>))
            /\ UNCHANGED octo

\* the loop testing the state the object holds, without asking the server
PollHeldState ==
    /\ run.pc = "polling"
    /\ octo' = octo
    /\ run' = [run EXCEPT !.observed = octo.state,
                          !.waited = @ \/ ~IsFinished(octo.state),
                          !.pc = IF IsFinished(octo.state) THEN "returning"
                                 ELSE "polling"]
    /\ RunDone(Call("train.poll", octo.id, "ok", <<>>, <<>>, <<>>))

\* one test of `while not is_finished()`, and the sleep when it fails
Poll ==
    /\ run.pc = "polling"
    /\ octo' = GetState(octo, run.status)
    /\ run' = [run EXCEPT !.observed = run.status,
                          !.waited = @ \/ ~IsFinished(run.status),
                          !.pc = IF IsFinished(run.status) THEN "returning"
                                 ELSE "polling"]
    /\ RunDone(Call("train.poll", octo.id, "ok", <<>>, <<"item">>, <<>>))

\* return self._get_state().status == Status.COMPLETE
TrainReturn ==
    /\ run.pc = "returning"
    /\ octo' = GetState(octo, run.status)
    /\ run' = [run EXCEPT !.pc = "idle"]
    /\ RunDone(Call("train", None, "ok", <<Bool(run.status = "complete")>>,
                    <<"item">>, <<>>))

\* the server's training moves on; Complete and Error are final
ServerStep ==
    /\ run.status \notin Terminal
    /\ \E st \in IF run.status = "untrained" THEN {"busy"} ELSE Terminal :
         run' = [run EXCEPT !.status = st]
    /\ UNCHANGED <<patterns, peer, last, octo, karma, ep, srv, itemsCache, getCache,
                   columnsCache, muts, mutStamp, mutErr, seen>>

\* ---- the csv of get_patterns ----
\* alignId of the alignment's edges: the ids of two links, and one the
\* alignment does not have
AlignIds == {"a", "b"}
UnknownAlignId == "x"
\* ids of the lines of edges.json, and one no line has
EdgeIds == 1..MaxEdgeRecs
UnknownEdgeId == 0
\* pos[0].startswith("__e"), of the item names "__e0" and "__v0"
StartsWithE(name) == name = "__e0"

NoPatterns ==
    [align |-> <<>>, edges_j |-> <<>>, graph_j |-> <<>>,
     written |-> FALSE, header |-> <<>>, rows |-> <<>>]

\* uri_lookup[data["alignId"]] = key over alignment.edges: the edge at
\* position i has key i - 1, the last edge of an alignId stays
UriLookup(align) ==
    [a \in {align[i] : i \in DOMAIN align} |->
        (CHOOSE i \in DOMAIN align :
            align[i] = a /\ \A j \in DOMAIN align : align[j] = a => j <= i) - 1]

\* edge_lines: the lines of edges.json whose alignId is in uri_lookup
RECURSIVE EdgeLines(_, _, _)
EdgeLines(edges_j, uri_lookup, edge_lines) ==
    IF edges_j = <<>> THEN edge_lines
    ELSE LET proc == Head(edges_j) IN
         EdgeLines(Tail(edges_j), uri_lookup,
                   IF proc.alignId \in DOMAIN uri_lookup
                   THEN [id \in DOMAIN edge_lines \cup {proc.id} |->
                            IF id = proc.id THEN uri_lookup[proc.alignId]
                            ELSE edge_lines[id]]
                   ELSE edge_lines)

\* edges of one graph line: the __e items whose edge id is in edge_lines
RECURSIVE ResolvedEdges(_, _)
ResolvedEdges(el, edge_lines) ==
    IF el = <<>> THEN <<>>
    ELSE LET pos == Head(el)
             rest == ResolvedEdges(Tail(el), edge_lines)
         IN IF StartsWithE(pos[1]) /\ pos[2] \in DOMAIN edge_lines
            THEN <<edge_lines[pos[2]]>> \o rest
            ELSE rest

\* sorted(edges)
RECURSIVE Sorted(_)
Sorted(edges) ==
    IF edges = <<>> THEN <<>>
    ELSE LET m == CHOOSE i \in DOMAIN edges :
                      \A j \in DOMAIN edges :
                          edges[i] < edges[j] \/ (edges[i] = edges[j] /\ i <= j)
         IN <<edges[m]>> \o Sorted(Without(edges, m))

\* python's s <= t on lists of integers
RECURSIVE ListLeq(_, _)
ListLeq(s, t) ==
    IF s = <<>> THEN TRUE
    ELSE IF t = <<>> THEN FALSE
    ELSE IF Head(s) # Head(t) THEN Head(s) < Head(t)
    ELSE ListLeq(Tail(s), Tail(t))

\* one element of graph_lines
GraphLine(proc, edge_lines) ==
    LET edges == ResolvedEdges(proc.mapping, edge_lines) IN
    [pattern |-> proc.id, support |-> proc.support,
     num_edges |-> Len(edges), edge_keys |-> Sorted(edges)]

\* rows ordered by pattern id
KeyIsPattern(row) == <<row.pattern>>

\* key=lambda x: x[3]
SortKey(row) == row.edge_keys

\* graph_lines.sort(key=...): stable
RECURSIVE SortLines(_)
SortLines(lines) ==
    IF lines = <<>> THEN <<>>
    ELSE LET m == CHOOSE i \in DOMAIN lines :
                      \A j \in DOMAIN lines :
                          IF j < i
                          THEN ~ListLeq(SortKey(lines[j]), SortKey(lines[i]))
                          ELSE ListLeq(SortKey(lines[i]), SortKey(lines[j]))
         IN <<lines[m]>> \o SortLines(Without(lines, m))

\* the rows written after the header
PatternRows(p) ==
    LET edge_lines == EdgeLines(p.edges_j, UriLookup(p.align), <<>>) IN
    SortLines([i \in DOMAIN p.graph_j |-> GraphLine(p.graph_j[i], edge_lines)])

CsvHeader == <<"pattern", "support", "num_edges", "edge_keys">>

\* octopus.get_patterns(path)
GetPatterns ==
    /\ run.pc = "idle"
    /\ UNCHANGED run
    /\ IF NotReady(octo)
       THEN /\ RunDone(Call("get_patterns", None, "Exception", <<>>, <<>>, <<>>))
            /\ UNCHANGED octo
       ELSE /\ octo' = GetState(octo, run.status)
            /\ IF run.status # "complete"
               THEN RunDone(Call("get_patterns", None, "Exception", <<>>,
                                 <<"item">>, <<>>))
               ELSE /\ RunReturns(Call("get_patterns", None, "ok", <<"path">>,
                                       <<"item", "patterns", "alignment",
                                         "write">>, <<>>))
                    /\ patterns' = [patterns EXCEPT
                                       !.written = TRUE,
                                       !.header = CsvHeader,
                                       !.rows = PatternRows(patterns)]

DatasetArgs == {StoredMember("dataset", 1), LocalMember("dataset")}

\* octopus.predict(dataset)
Predict(dataset) ==
    /\ run.pc = "idle"
    /\ UNCHANGED <<octo, run>>
    /\ IF ~dataset.stored
       THEN RunDone(Call("predict", dataset, "ValueError", <<>>, <<>>, <<>>))
       ELSE IF ~octo.session
       THEN RunDone(Call("predict", dataset, "AttributeError", <<>>, <<>>, <<>>))
       ELSE RunDone([Call("predict", dataset, "ok", <<"predictions">>,
                          <<"predict">>, <<>>)
                     EXCEPT !.sent = <<octo.id, dataset.id>>])

\* octopus.matcher_predict(dataset)
MatcherPredict(dataset) ==
    /\ run.pc = "idle"
    /\ UNCHANGED <<octo, run>>
    /\ IF ~dataset.stored
       THEN RunDone(Call("matcher_predict", dataset, "ValueError", <<>>, <<>>, <<>>))
       ELSE IF ~octo.session
       THEN RunDone(Call("matcher_predict", dataset, "AttributeError", <<>>,
                         <<>>, <<>>))
       ELSE RunDone([Call("matcher_predict", dataset, "ok", <<"predictions">>,
                          <<"model.predict">>, <<>>)
                     EXCEPT !.sent = <<octo.model_id, dataset.id>>])

\* octopus.remove(value) between two blocking calls
RemoveMember(v) ==
    /\ run.pc = "idle"
    /\ OctoRemove(v)

\* ---------------------------------------------------------------------
\* convert_karma_graph
\* ---------------------------------------------------------------------
\* A string is a sequence of pieces; the piece "---" is the separator.
Sep == <<"---">>

RECURSIVE SplitSep(_)
\* str.split("---")
SplitSep(t) ==
    IF \A i \in DOMAIN t : t[i] # "---" THEN <<t>>
    ELSE LET i == CHOOSE i \in DOMAIN t :
                    t[i] = "---" /\ \A j \in 1..(i - 1) : t[j] # "---"
         IN <<SubSeq(t, 1, i - 1)>> \o SplitSep(SubSeq(t, i + 1, Len(t)))

\* utils.get_label, utils.get_prefix: the name after the namespace, and the
\* namespace
GetLabel(uri) == IF uri = <<>> THEN <<>> ELSE <<uri[Len(uri)]>>
GetPrefix(uri) == IF uri = <<>> THEN <<>> ELSE SubSeq(uri, 1, Len(uri) - 1)

NodeNames == <<"n1", "n2", "n3", "n4">>
ClassNames == <<"Person", "City", "Place", "Event">>
NodeTypes == {"InternalNode", "ColumnNode"}
LinkTypes == {"DataPropertyLink", "ClassInstanceLink", "ObjectPropertyLink"}
EdgeUris == {<<"ex:", "name">>, <<"ex:", "knows">>}

\* entries of data["nodes"] and data["links"] in Karma's graph.json
KarmaNode(i, type) ==
    [id |-> <<NodeNames[i]>>, type |-> type,
     label |-> [uri |-> <<"ex:", ClassNames[i]>>]]
KarmaLink(src, uri, tgt, type) ==
    [id |-> <<NodeNames[src]>> \o Sep \o uri \o Sep \o <<NodeNames[tgt]>>,
     type |-> type, weight |-> 1]

SeqsUpTo(S, n) == UNION {[1..m -> S] : m \in 0..n}

\* graphs of 1..MaxNodes nodes and up to MaxLinks links between them
KarmaNodes ==
    {[i \in DOMAIN ns |-> KarmaNode(ns[i][1], ns[i][2])] :
        ns \in SeqsUpTo((1..MaxNodes) \X NodeTypes, MaxNodes) \ {<<>>}}
KarmaLinks(nodes) ==
    LET used == {i \in 1..MaxNodes : \E n \in DOMAIN nodes : nodes[n].id = <<NodeNames[i]>>}
    IN SeqsUpTo({KarmaLink(a, uri, b, type) :
                    a \in used, uri \in EdgeUris, b \in used, type \in LinkTypes},
                MaxLinks)

\* position of the last element of s with this id
LastWith(s, id) ==
    CHOOSE i \in DOMAIN s : s[i].id = id /\ \A j \in DOMAIN s : s[j].id = id => j <= i

\* node_data of one node
NodeData(node) ==
    LET internal == node.type = "InternalNode" IN
    [type |-> IF internal THEN "ClassNode" ELSE "DataNode",
     label |-> IF internal THEN GetLabel(node.label.uri) ELSE <<>>,
     lab |-> IF internal THEN GetLabel(node.id) ELSE <<>>,
     prefix |-> IF internal THEN GetPrefix(node.label.uri) ELSE <<>>]

\* the link indices going on from the node indices
LinkStartAfterNodes(n) == n

\* cur_id = 0, between the two loops
LinkStart(n) == 0

\* the label passing on along DataPropertyLink only
OnlyDataPropertyLink == {"DataPropertyLink"}

\* the link types whose target takes over the label of the source
TerminalLinkTypes == {"DataPropertyLink", "ClassInstanceLink"}

\* MultiDiGraph.add_edge(u, v, key=key, attr_dict=data)
AddEdge(edges, u, v, key, data) ==
    {e \in edges : ~(e.u = u /\ e.v = v /\ e.key = key)}
    \cup {[u |-> u, v |-> v, key |-> key, data |-> data]}

\* the target taking over every attribute of the source, its type too
RelabelWithType(g, u, v, link_data) ==
    [g EXCEPT !.node[v] =
        [@ EXCEPT !.type = g.node[u].type,
                  !.label = g.node[u].label \o Sep \o link_data.label,
                  !.lab = g.node[u].lab \o Sep \o link_data.label,
                  !.prefix = g.node[u].prefix]]

\* the three assignments to g.node[node_map[target]]
Relabel(g, u, v, link_data) ==
    [g EXCEPT !.node[v] =
        [@ EXCEPT !.label = g.node[u].label \o Sep \o link_data.label,
                  !.lab = g.node[u].lab \o Sep \o link_data.label,
                  !.prefix = g.node[u].prefix]]

\* the node counter going on from where the conversion before stopped
NodeStartCarried == karma.left

\* cur_id = 0, before the node loop
NodeStart == 0

RECURSIVE LinkLoop(_, _, _, _, _)
\* `for link in links`, from the j-th link on
LinkLoop(links, j, node_map, start, g) ==
    IF j > Len(links) THEN g
    ELSE LET link == links[j]
             parts == SplitSep(link.id)
             source == parts[1]
             uri == parts[2]
             target == parts[3]
             link_data == [alignId |-> link.id, type |-> link.type,
                           weight |-> link.weight, label |-> GetLabel(uri),
                           prefix |-> GetPrefix(uri)]
             u == node_map[source]
             v == node_map[target]
             g1 == [g EXCEPT !.edge = AddEdge(@, u, v, start + j - 1, link_data)]
             g2 == IF link.type \in TerminalLinkTypes
                   THEN Relabel(g1, u, v, link_data)
                   ELSE g1
         IN LinkLoop(links, j + 1, node_map, start, g2)

\* Octopus.convert_karma_graph(data)
ConvertKarmaGraph(data) ==
    LET nodes == data.nodes
        links == data.links
        node_map == [id \in {nodes[i].id : i \in DOMAIN nodes} |->
                        NodeStart + LastWith(nodes, id) - 1]
        start == LinkStart(Len(nodes))
        link_map == [id \in {links[j].id : j \in DOMAIN links} |->
                        start + LastWith(links, id) - 1]
        g0 == [node |-> [n \in NodeStart..(NodeStart + Len(nodes) - 1) |->
                            NodeData(nodes[n - NodeStart + 1])],
               edge |-> {}]
    IN [g |-> LinkLoop(links, 1, node_map, start, g0),
        node_map |-> node_map, link_map |-> link_map]

\* Octopus.convert_karma_graph(data) called on the graph at hand; `left`
\* is the value its local counter had when it returned
ConvertKarma ==
    LET out == ConvertKarmaGraph(karma.data) IN
    /\ karma' = [karma EXCEPT
                    !.done = TRUE, !.out = out,
                    !.runs = IF @ < 2 THEN @ + 1 ELSE @,
                    !.first = IF karma.runs = 0 THEN out ELSE @,
                    !.left = Len(karma.data.links)]
    /\ last' = Call("convert_karma_graph", None, "ok", <<>>, <<>>, <<>>)
    /\ UNCHANGED <<patterns, peer, octo, run, ep, srv, itemsCache, getCache,
                   columnsCache, muts, mutStamp, mutErr, seen>>

\* another graph, converted between two conversions of the graph at hand
OtherGraph ==
    [nodes |-> <<KarmaNode(1, "InternalNode"), KarmaNode(2, "ColumnNode")>>,
     links |-> <<KarmaLink(1, <<"ex:", "name">>, 2, "DataPropertyLink")>>]

\* Octopus.convert_karma_graph(OtherGraph)
ConvertOther ==
    /\ karma.runs = 1
    /\ karma' = [karma EXCEPT !.other = TRUE, !.left = Len(OtherGraph.links)]
    /\ last' = Call("convert_karma_graph", None, "ok", <<>>, <<>>, <<>>)
    /\ UNCHANGED <<patterns, peer, octo, run, ep, srv, itemsCache, getCache,
                   columnsCache, muts, mutStamp, mutErr, seen>>

\* ---------------------------------------------------------------------
\* Specifications
\* ---------------------------------------------------------------------
SrvStart == {[present |-> FALSE, gen |-> 0], [present |-> TRUE, gen |-> 0]}

UploadCandidates ==
    {NewOctopus(List(s), List(<<>>), <<>>, "randomForest", "NoResampling") :
        s \in {<<>>, <<LocalMember("ssd")>>}}

InitCache ==
    /\ ep \in Kinds
    /\ srv \in [Keys -> SrvStart]
    /\ itemsCache = EmptyCache
    /\ getCache = <<>>
    /\ columnsCache = EmptyColumns
    /\ muts = 0
    /\ mutStamp = 0
    /\ mutErr = "none"
    /\ seen = NotSeen
    /\ octo \in IF ep = "octopus" THEN UploadCandidates ELSE {DefaultOctopus}
    /\ last = Call("init", None, "ok", <<>>, <<>>, <<>>)
    /\ run = NoRun
    /\ karma = NoKarma
    /\ peer = NoPeer
    /\ patterns = NoPatterns

NextCache ==
    \/ Items
    \/ Columns
    \/ \E k \in Keys : GetByItem(k)
    \/ \E k \in Keys : GetByScan(k)
    \/ \E argOk \in BOOLEAN, outcome \in Outcomes : Upload(argOk, outcome)
    \/ \E value \in CallArgs, outcome \in Outcomes : Update(value, outcome)
    \/ \E value \in CallArgs, outcome \in Outcomes : Remove(value, outcome)
    \/ \E outcome \in Outcomes : UploadOctopus(outcome, 1)

SpecCache == InitCache /\ [][NextCache]_vars

InitOctopus ==
    /\ ep = "octopus"
    /\ srv = [k \in Keys |-> [present |-> FALSE, gen |-> 0]]
    /\ itemsCache = EmptyCache
    /\ getCache = <<>>
    /\ columnsCache = EmptyColumns
    /\ muts = 0
    /\ mutStamp = 0
    /\ mutErr = "none"
    /\ seen = NotSeen
    /\ octo = DefaultOctopus
    /\ last = Call("Octopus()", None, "ok", <<>>, <<>>,
                   <<"randomForest", "NoResampling">>)
    /\ run = NoRun
    /\ karma = NoKarma
    /\ peer = NoPeer
    /\ patterns = NoPatterns

NextOctopus ==
    \/ \E ssds \in MemberLists, ontologies \in MemberLists,
          fc \in FeatureConfigs :
            Construct(ssds, ontologies, fc, "randomForest", "NoResampling")
    \/ \E en \in BadEnumArgs :
            Construct(List(<<>>), List(<<>>), <<>>, en[1], en[2])
    \/ \E json \in OctopusJson, v \in 1..MaxModel,
          failAt \in {"none", "ssd", "ontology", "model"} :
            OctoUpdate(json, v, failAt)
    \/ \E v \in AddValues : OctoAdd(v)
    \/ \E v \in AddValues : OctoRemove(v)
    \/ \E outcome \in Outcomes, v \in 1..MaxModel : UploadOctopus(outcome, v)

SpecOctopus == InitOctopus /\ [][NextOctopus]_vars

\* the endpoint proxy at rest, for the calls on one entity
EndpointAtRest ==
    /\ ep = "octopus"
    /\ srv = [k \in Keys |-> [present |-> FALSE, gen |-> 0]]
    /\ itemsCache = EmptyCache
    /\ getCache = <<>>
    /\ columnsCache = EmptyColumns
    /\ muts = 0
    /\ mutStamp = 0
    /\ mutErr = "none"
    /\ seen = NotSeen

InitProps ==
    /\ EndpointAtRest
    /\ octo = WithProps(DefaultOctopus, NoProps)
    /\ last = Call("init", None, "ok", <<>>, <<>>, <<>>)
    /\ run = NoRun
    /\ karma = NoKarma
    /\ peer = NoPeer
    /\ patterns = NoPatterns

NextProps ==
    \/ \E props \in ModelingProps : ConstructProps(props)
    \/ CheckProps

SpecProps == InitProps /\ [][NextProps]_vars

InitTrain ==
    /\ EndpointAtRest
    /\ octo \in {DefaultOctopus, HydratedOctopus}
    /\ last = Call("init", None, "ok", <<>>, <<>>, <<>>)
    /\ run = NoRun
    /\ karma = NoKarma
    /\ peer = NoPeer
    /\ patterns = NoPatterns

NextTrain ==
    \/ TrainCall
    \/ Poll
    \/ TrainReturn
    \/ ServerStep
    \/ GetPatterns
    \/ \E dataset \in DatasetArgs : Predict(dataset)
    \/ \E dataset \in DatasetArgs : MatcherPredict(dataset)
    \/ \E v \in Members("ssd") : RemoveMember(v)

SpecTrain == InitTrain /\ [][NextTrain]_vars

\* the loop of train goes on running and the server's training ends
SpecTrainFair ==
    /\ SpecTrain
    /\ WF_vars(Poll) /\ WF_vars(TrainReturn) /\ WF_vars(ServerStep)

InitKarma ==
    /\ EndpointAtRest
    /\ octo = DefaultOctopus
    /\ last = Call("init", None, "ok", <<>>, <<>>, <<>>)
    /\ run = NoRun
    /\ peer = NoPeer
    /\ patterns = NoPatterns
    /\ \E nodes \in KarmaNodes : \E links \in KarmaLinks(nodes) :
         karma = [NoKarma EXCEPT !.data = [nodes |-> nodes, links |-> links]]

NextKarma ==
    \/ ConvertKarma
    \/ ConvertOther

SpecKarma == InitKarma /\ [][NextKarma]_vars

\* two proxies of one endpoint class and a proxy of another class
NextPeers ==
    \/ Items
    \/ PeerItems
    \/ OtherItems
    \/ \E argOk \in BOOLEAN, outcome \in Outcomes : Upload(argOk, outcome)
    \/ \E value \in CallArgs, outcome \in Outcomes : Update(value, outcome)
    \/ \E value \in CallArgs, outcome \in Outcomes : Remove(value, outcome)
    \/ \E outcome \in Outcomes : UploadOctopus(outcome, 1)

SpecPeers == InitCache /\ [][NextPeers]_vars

\* one proxy of a class whose get asks the server for the key, on a server
\* holding one entity more than the get cache has room for
LruKeys == 1..(LruMaxSize + 1)

\* the key after the highest one cached
Fresh ==
    IF getCache = <<>> THEN 2
    ELSE 1 + (CHOOSE k \in LruKeys :
                /\ InGetCache(k)
                /\ \A j \in LruKeys : InGetCache(j) => j <= k)

\* keys handed to get: the two oldest ones, and the others in turn
Probes == {1, 2} \cup ({Fresh} \cap LruKeys)

\* what get(k) made of the server's first answer
Warm(k) == Hydrate("get", 0, [id |-> k, gen |-> 0])

\* the proxy after get(1), get(2), .. get(LruMaxSize - 1): the cache has
\* room for one more key
InitLru ==
    /\ ep \in {"dataset", "model", "ssd"}
    /\ srv = [k \in LruKeys |-> [present |-> TRUE, gen |-> 0]]
    /\ itemsCache = EmptyCache
    /\ getCache = [k \in 1..(LruMaxSize - 1) |-> [key |-> k, obj |-> Warm(k)]]
    /\ columnsCache = EmptyColumns
    /\ muts = 0
    /\ mutStamp = 0
    /\ mutErr = "none"
    /\ seen = [k \in LruKeys |->
                  IF k < LruMaxSize
                  THEN <<[err |-> "ok", val |-> <<Warm(k)>>]>> ELSE <<>>]
    /\ last = Call("get", LruMaxSize - 1, "ok", <<Warm(LruMaxSize - 1)>>,
                   <<"item">>, <<>>)
    /\ octo = DefaultOctopus
    /\ run = NoRun
    /\ karma = NoKarma
    /\ peer = NoPeer
    /\ patterns = NoPatterns

NextLru ==
    \/ \E k \in Probes : GetByItem(k)
    \/ \E outcome \in Outcomes : Remove(IntArg(1), outcome)
    \/ \E argOk \in BOOLEAN, outcome \in Outcomes : Upload(argOk, outcome)

SpecLru == InitLru /\ [][NextLru]_vars

\* a stored, trained Octopus and the files the server made for it
EdgeRec(i, alignId) == [id |-> i, alignId |-> alignId]
MappingItems ==
    {<<"__e0", e>> : e \in EdgeIds \cup {UnknownEdgeId}} \cup {<<"__v0", "n1">>}
GraphRec(i, el) == [id |-> i, support |-> 10 - i, mapping |-> el]

InitPatterns ==
    /\ EndpointAtRest
    /\ octo = GetState(DefaultOctopus, "complete")
    /\ last = Call("init", None, "ok", <<>>, <<>>, <<>>)
    /\ run = [NoRun EXCEPT !.status = "complete"]
    /\ karma = NoKarma
    /\ peer = NoPeer
    /\ \E align \in SeqsUpTo(AlignIds, MaxAlign) :
       \E ids \in SeqsUpTo(AlignIds \cup {UnknownAlignId}, MaxEdgeRecs) :
       \E n \in 0..MaxGraphs :
       \E el \in [1..n -> SeqsUpTo(MappingItems, MaxPairs)] :
           patterns = [NoPatterns EXCEPT
                          !.align = align,
                          !.edges_j = [i \in DOMAIN ids |-> EdgeRec(i, ids[i])],
                          !.graph_j = [i \in 1..n |-> GraphRec(i, el[i])]]

NextPatterns == GetPatterns

SpecPatterns == InitPatterns /\ [][NextPatterns]_vars

Spec == SpecCache

\* ---------------------------------------------------------------------
\* Properties
\* ---------------------------------------------------------------------
MutatorOps == {"upload", "update", "remove"}

\* C1: on every endpoint, once upload, update or remove has completed, a
\* later `items` or `get` never returns an object that was made before that
\* mutation.
ReadsAfterMutationAreFresh ==
    (last.op \in {"get", "items"} /\ last.err = "ok")
        => \A i \in DOMAIN last.val : last.val[i].born >= mutStamp

\* C2: once upload or remove on the Dataset endpoint has completed, the
\* `items` cache and the `columns` cache derived from it are both empty.
DatasetMutationEmptiesDerivedCaches ==
    (ep = "dataset" /\ last.op \in {"upload", "remove"} /\ last.err = "ok")
        => ~itemsCache.valid /\ ~columnsCache.valid

\* C3: a mutating endpoint call whose server call fails hands the error to
\* the caller and leaves the list cache empty, and an `items` read after it
\* returns a tuple fetched after the failed call, not the one cached before.
FailedMutationInvalidates ==
    /\ (last.op \in MutatorOps /\ last.err = "ServerError")
            => ~itemsCache.valid /\ mutErr = "ServerError"
    /\ (last.op = "items" /\ last.err = "ok" /\ mutErr = "ServerError")
            => \A i \in DOMAIN last.val : last.val[i].born = muts

\* an `items` read that follows a failed mutating call and asks the server
FailedMutationThenItems ==
    /\ last.op = "items" /\ last.err = "ok" /\ mutErr = "ServerError"
    /\ last.val # <<>>
    /\ last.reqs # <<>> /\ last.reqs[1] = "keys"

\* C4: for a key the server holds, a get(key) that follows an earlier
\* get(key) with no mutating call between them returns the very object the
\* earlier call returned and sends no request to the server.
RepeatedGetIsCached ==
    (last.op = "get" /\ last.prev # <<>> /\ srv[last.arg].present)
        => /\ last.err = "ok"
           /\ last.prev[1].err = "ok"
           /\ last.val = last.prev[1].val
           /\ last.reqs = <<>>

\* C5: an Octopus is always either local (not stored, no id) or stored
\* (stored, id set, both dates set).
LocalOrStored ==
    \/ (~octo.stored /\ octo.id = None)
    \/ (octo.stored /\ octo.id # None
        /\ octo.date_created # NoDate /\ octo.date_modified # NoDate)

UploadReturnsHydrated ==
    (ep = "octopus" /\ last.op = "upload" /\ last.sent # None)
        => /\ last.err = "ok"
           /\ octo.stored
           /\ octo.id = last.sent

HasUnstored(o) ==
    \/ \E i \in DOMAIN o.ssds.elems : ~o.ssds.elems[i].stored
    \/ \E i \in DOMAIN o.ontologies.elems : ~o.ontologies.elems[i].stored

\* C8: OctopusEndpoint.upload of an Octopus that references an SSD or an
\* Ontology that is not stored fails with a validation error, sends no post
\* and leaves the Octopus as it was; a post is only sent when every
\* referenced SSD and Ontology is stored.
UnstoredDependencyRejected ==
    [][(ep = "octopus" /\ last'.op = "upload" /\ muts' = muts + 1)
        => /\ HasUnstored(octo)
                => (last'.err = "ValueError" /\ last'.reqs = <<>> /\ octo' = octo)
           /\ last'.reqs # <<>> => ~HasUnstored(octo)]_vars

\* C9: a successful Octopus.add(v) or Octopus.remove(v) with v an SSD or an
\* Ontology leaves the Octopus not stored and changes nothing but the list
\* of v's kind, which gains v at its end or loses one occurrence of v.
MembershipChangeUnstores ==
    [][(last'.op \in {"Octopus.add", "Octopus.remove"} /\ last'.err = "ok")
        => LET v == last'.arg
               old == IF v.kind = "ssd" THEN octo.ssds.elems
                      ELSE octo.ontologies.elems
               new == IF v.kind = "ssd" THEN octo'.ssds.elems
                      ELSE octo'.ontologies.elems
           IN /\ v.kind \in {"ssd", "ontology"}
              /\ ~octo'.stored
              /\ IF last'.op = "Octopus.add"
                 THEN new = old \o <<v>>
                 ELSE \E i \in DOMAIN old :
                        /\ old[i] = v
                        /\ new = SubSeq(old, 1, i - 1) \o SubSeq(old, i + 1, Len(old))
              /\ IF v.kind = "ssd"
                 THEN octo' = [octo EXCEPT !.stored = FALSE, !.ssds = octo'.ssds]
                 ELSE octo' = [octo EXCEPT !.stored = FALSE,
                                           !.ontologies = octo'.ontologies]]_vars

\* a hydrated Octopus that a successful remove has turned local
RemovedFromHydrated ==
    /\ last.op = "Octopus.remove" /\ last.err = "ok"
    /\ octo.id # None /\ octo.session /\ ~octo.stored
    /\ octo.ssds.elems = <<>>

\* C10: Octopus.add(x) and Octopus.remove(x) with x neither an SSD nor an
\* Ontology fail with a validation error and leave the Octopus, its ssds,
\* ontologies and stored flag included, as it was.
OtherValueRejected ==
    [][(last'.op \in {"Octopus.add", "Octopus.remove"} /\ last'.arg.kind = "other")
        => (last'.err = "ValueError" /\ octo' = octo)]_vars

\* a stored Octopus with members that has just rejected add(x)
StoredAfterRejectedAdd ==
    /\ last.op = "Octopus.add" /\ last.arg.kind = "other"
    /\ last.err = "ValueError"
    /\ octo.stored /\ octo.ssds.elems # <<>>

\* C11: remove(v) of every endpoint sends exactly one delete: with key v
\* when v is an integer, with key v.id when v is an object of the endpoint's
\* own entity class; for every other v it fails with a TypeError and sends
\* no delete.
RemoveSendsOneDelete ==
    (last.op = "remove")
        => IF last.arg.type = "int"
              \/ (last.arg.type = "entity" /\ last.arg.kind = ep)
           THEN /\ last.reqs = <<"delete">>
                /\ last.sent = last.arg.id
                /\ last.err \in {"ok", "ServerError"}
           ELSE /\ last.err = "TypeError"
                /\ last.reqs = <<>>

\* a remove that was handed an object of the endpoint's class and deleted
\* the key of that object
RemovedByObject ==
    /\ last.op = "remove" /\ last.err = "ok"
    /\ last.arg.type = "entity" /\ last.arg.kind = ep
    /\ last.sent = last.arg.id /\ last.reqs = <<"delete">>
    /\ ~srv[last.arg.id].present

\* C12: get(key) on the Ontology or Octopus endpoint for a key the server
\* does not hold fails with the not-found error and returns nothing; the
\* failure is not cached: once a mutating call has emptied the cache, get of
\* a key the server holds returns its entity.
GetOfAbsentKeyIsNotFound ==
    (ep \in {"ontology", "octopus"} /\ last.op = "get")
        => /\ ~srv[last.arg].present
                => (last.err = "NotFound" /\ last.val = <<>>)
           /\ (srv[last.arg].present /\ muts > 0)
                => (last.err = "ok" /\ Len(last.val) = 1
                    /\ last.val[1].id = last.arg)


\* the ranges of the modeling properties
OutOfRange(d) ==
    \/ \E name \in DOMAIN d \cap WeightProps : d[name] < 0 \/ d[name] > Halves(1)
    \/ \E name \in DOMAIN d \cap CountProps : d[name] <= 0

\* C13: constructing an Octopus with a modeling property out of its range
\* raises the validation error; with every property in range it does not.
ConstructionValidatesProps ==
    (last.op = "Octopus()" /\ last.arg.isDict)
        => (last.err = "ValueError" <=> OutOfRange(last.arg.d))

Sends(call, r) == \E i \in DOMAIN call.reqs : call.reqs[i] = r

\* C15: train and get_patterns on an Octopus that is not stored or has no
\* session fail with the precondition error before any request and change
\* nothing; get_patterns on a stored Octopus whose server status is not
\* Complete fails with that error, asks for no patterns and writes no file.
TrainAndPatternsNeedStored ==
    [][(run.pc = "idle"
        /\ last'.op \in {"train", "train.request", "get_patterns"})
        => /\ (~octo.stored \/ ~octo.session)
                => /\ last'.op # "train.request"
                   /\ last'.err = "Exception"
                   /\ last'.reqs = <<>>
                   /\ octo' = octo
                   /\ run'.pc = "idle" /\ run'.trains = run.trains
           /\ (last'.op = "get_patterns" /\ octo.stored /\ octo.session
               /\ run.status # "complete")
                => /\ last'.err = "Exception"
                   /\ ~Sends(last', "patterns")
                   /\ ~Sends(last', "write")]_vars

\* train refused on a hydrated Octopus that lost its stored flag
TrainRefusedAfterRemove ==
    /\ last.op = "train" /\ last.err = "Exception" /\ last.reqs = <<>>
    /\ octo.session /\ octo.id # None /\ ~octo.stored

\* C16: predict and matcher_predict on an Octopus that is not stored fail
\* and send no predict request, whatever dataset they are given.
PredictNeedsStored ==
    (last.op \in {"predict", "matcher_predict"} /\ ~octo.stored)
        => (last.err # "ok" /\ last.reqs = <<>>)

\* C17: train on a stored Octopus sends one train request, returns only
\* after a poll has seen Complete or Error, returns True exactly for
\* Complete, and leaves that status in the state of the Octopus.
TrainReturnsTerminalStatus ==
    /\ run.pc # "idle" => run.trains = 1
    /\ (last.op = "train" /\ last.err = "ok")
        => /\ run.trains = 1
           /\ run.observed \in Terminal
           /\ run.status = run.observed
           /\ last.val = <<Bool(run.observed = "complete")>>
           /\ octo.state = run.observed
           /\ octo.stored

\* train has returned False for a training that ended in Error
TrainReturnedFalse ==
    /\ last.op = "train" /\ last.err = "ok" /\ last.val = <<"False">>
    /\ octo.state = "error" /\ run.trains = 1

\* C18: when the server's training reaches Complete or Error, a train call
\* that is polling returns; and no train call returns while the server's
\* status is neither of the two, however long it polls.
TrainTerminatesIffTerminal ==
    /\ (run.pc = "polling") ~> (run.pc = "idle")
    /\ [][(run.pc # "idle" /\ run'.pc = "idle")
            => run'.status \in Terminal]_vars

\* train has returned True after a poll that found the training unfinished
TrainReturnedAfterWaiting ==
    /\ last.op = "train" /\ last.err = "ok" /\ last.val = <<"True">>
    /\ run.waited /\ run.pc = "idle"

\* the ids of a list are pairwise distinct
DistinctIds(s) == \A i, j \in DOMAIN s : s[i].id = s[j].id => i = j

\* C19: with pairwise distinct node ids and link ids, node_map sends the
\* i-th node id to i and link_map the j-th link id to j, counted from 0,
\* both one-to-one, and the graph has one edge per link, keyed j, from
\* node_map[source] to node_map[target]; parallel edges stay apart.
IndicesFollowPosition ==
    LET nodes == karma.data.nodes
        links == karma.data.links
        out == karma.out
    IN (karma.done /\ DistinctIds(nodes) /\ DistinctIds(links))
        => /\ DOMAIN out.node_map = {nodes[i].id : i \in DOMAIN nodes}
           /\ \A i \in DOMAIN nodes : out.node_map[nodes[i].id] = i - 1
           /\ DOMAIN out.link_map = {links[j].id : j \in DOMAIN links}
           /\ \A j \in DOMAIN links : out.link_map[links[j].id] = j - 1
           /\ DOMAIN out.g.node = 0..(Len(nodes) - 1)
           /\ Cardinality(out.g.edge) = Len(links)
           /\ \A j \in DOMAIN links :
                \E e \in out.g.edge :
                    /\ e.key = j - 1
                    /\ e.u = out.node_map[SplitSep(links[j].id)[1]]
                    /\ e.v = out.node_map[SplitSep(links[j].id)[3]]
                    /\ e.data.alignId = links[j].id
                    /\ \A f \in out.g.edge : f.key = j - 1 => f = e

\* a converted graph with two parallel links from the second node to the first
ParallelLinksKept ==
    /\ karma.done
    /\ Len(karma.data.nodes) = 2 /\ DistinctIds(karma.data.nodes)
    /\ Len(karma.data.links) = 2 /\ DistinctIds(karma.data.links)
    /\ \A j \in 1..2 :
         /\ SplitSep(karma.data.links[j].id)[1] = karma.data.nodes[2].id
         /\ SplitSep(karma.data.links[j].id)[3] = karma.data.nodes[1].id
    /\ {[u |-> e.u, v |-> e.v, key |-> e.key] : e \in karma.out.g.edge}
         = {[u |-> 1, v |-> 0, key |-> 0], [u |-> 1, v |-> 0, key |-> 1]}

\* the node of an id, and the label its URI gives
NodeOf(nodes, id) == nodes[LastWith(nodes, id)]
IsTerminal(link) == link.type \in {"DataPropertyLink", "ClassInstanceLink"}
ExpectedLabel(nodes, link) ==
    GetLabel(NodeOf(nodes, SplitSep(link.id)[1]).label.uri)
        \o <<"---">> \o GetLabel(SplitSep(link.id)[2])

\* C20: for every DataPropertyLink or ClassInstanceLink from a class node C
\* to a node D with edge label E, D's label after the conversion is C's
\* label, as C's URI gives it, then "---", then E; whatever the order of the
\* links.
TargetLabelledFromSource ==
    LET nodes == karma.data.nodes
        links == karma.data.links
    IN (karma.done /\ DistinctIds(nodes))
        => \A j \in DOMAIN links :
             (IsTerminal(links[j])
              /\ NodeOf(nodes, SplitSep(links[j].id)[1]).type = "InternalNode")
             => karma.out.g.node[karma.out.node_map[SplitSep(links[j].id)[3]]].label
                    = ExpectedLabel(nodes, links[j])

\* C20, amended: the same for every such link that is the last one of these
\* types into D in the order of the input and has no link of these types
\* into C before it.
LastTargetLabelledFromSource ==
    LET nodes == karma.data.nodes
        links == karma.data.links
    IN (karma.done /\ DistinctIds(nodes))
        => \A j \in DOMAIN links :
             (/\ IsTerminal(links[j])
              /\ NodeOf(nodes, SplitSep(links[j].id)[1]).type = "InternalNode"
              /\ \A k \in DOMAIN links :
                   (k > j /\ IsTerminal(links[k]))
                     => SplitSep(links[k].id)[3] # SplitSep(links[j].id)[3]
              /\ \A k \in DOMAIN links :
                   (k < j /\ IsTerminal(links[k]))
                     => SplitSep(links[k].id)[3] # SplitSep(links[j].id)[1])
             => karma.out.g.node[karma.out.node_map[SplitSep(links[j].id)[3]]].label
                    = ExpectedLabel(nodes, links[j])

\* two links of these types into one node: the node is labelled by the second
SecondLinkLabelsTarget ==
    /\ karma.done
    /\ Len(karma.data.nodes) = 2 /\ DistinctIds(karma.data.nodes)
    /\ karma.data.nodes[1].type = "InternalNode"
    /\ karma.data.nodes[2].type = "ColumnNode"
    /\ Len(karma.data.links) = 2
    /\ karma.data.links[1].type = "DataPropertyLink"
    /\ karma.data.links[2].type = "ClassInstanceLink"
    /\ \A j \in 1..2 :
         /\ SplitSep(karma.data.links[j].id)[1] = karma.data.nodes[1].id
         /\ SplitSep(karma.data.links[j].id)[3] = karma.data.nodes[2].id
    /\ ExpectedLabel(karma.data.nodes, karma.data.links[1])
         # ExpectedLabel(karma.data.nodes, karma.data.links[2])
    /\ karma.out.g.node[1].label
         = ExpectedLabel(karma.data.nodes, karma.data.links[2])

TerminalTargets ==
    {karma.out.node_map[SplitSep(karma.data.links[j].id)[3]] :
        j \in {k \in DOMAIN karma.data.links : IsTerminal(karma.data.links[k])}}

\* C25: a link of another type changes no node attribute and a
\* DataPropertyLink or ClassInstanceLink changes only label, lab and prefix
\* of its target: every node keeps its type, and a node no such link points
\* at ends as the node loop made it (a class node with the label of its URI,
\* a data node with empty label, lab and prefix).
OnlyTargetsAreRelabelled ==
    karma.done
        => \A i \in DOMAIN karma.data.nodes :
             LET node == karma.data.nodes[i]
                 internal == node.type = "InternalNode"
                 end == karma.out.g.node[i - 1]
             IN /\ end.type = IF internal THEN "ClassNode" ELSE "DataNode"
                /\ DOMAIN end = {"type", "label", "lab", "prefix"}
                /\ (i - 1) \notin TerminalTargets
                     => /\ end.label = IF internal THEN GetLabel(node.label.uri)
                                       ELSE <<>>
                        /\ end.lab = IF internal THEN GetLabel(node.id) ELSE <<>>
                        /\ end.prefix = IF internal THEN GetPrefix(node.label.uri)
                                        ELSE <<>>

\* an ObjectPropertyLink into the second node left it alone, while a
\* DataPropertyLink from that class node relabelled the first, a data node
UntargetedNodeKept ==
    /\ karma.done
    /\ Len(karma.data.nodes) = 2 /\ DistinctIds(karma.data.nodes)
    /\ karma.data.nodes[1].type = "ColumnNode"
    /\ karma.data.nodes[2].type = "InternalNode"
    /\ Len(karma.data.links) = 2
    /\ karma.data.links[1].type = "ObjectPropertyLink"
    /\ SplitSep(karma.data.links[1].id)[3] = karma.data.nodes[2].id
    /\ karma.data.links[2].type = "DataPropertyLink"
    /\ SplitSep(karma.data.links[2].id)[1] = karma.data.nodes[2].id
    /\ SplitSep(karma.data.links[2].id)[3] = karma.data.nodes[1].id
    /\ TerminalTargets = {0}
    /\ karma.out.g.node[1].label = GetLabel(karma.data.nodes[2].label.uri)
    /\ karma.out.g.node[0].label # <<>>
    /\ karma.out.g.node[0].type = "DataNode"

\* C22: right after its construction an Octopus has stored = False and no
\* id, whatever valid arguments it was given; a model_type or
\* resampling_strategy outside the enum raises the validation error and no
\* object comes into being.
ConstructionIsLocal ==
    [][(last'.op = "Octopus()")
        => IF last'.prev[1] \in ModelTypeValues
              /\ last'.prev[2] \in SamplingStrategyValues
           THEN /\ last'.err = "ok"
                /\ ~octo'.stored /\ octo'.id = None
                /\ octo'.model_type = last'.prev[1]
                /\ octo'.resampling_strategy = last'.prev[2]
           ELSE /\ last'.err = "ValueError"
                /\ octo' = octo]_vars

\* an Octopus just constructed with lists and a feature configuration
ConstructedWithArguments ==
    /\ last.op = "Octopus()" /\ last.err = "ok"
    /\ octo.ssds.set /\ octo.ontologies.set /\ octo.feature_config # <<>>
    /\ ~octo.stored /\ octo.id = None /\ ~octo.session

\* C27: when remove(v) raises because the SSD or Ontology v is not a
\* member, or add(v) raises because the list was never set, stored, ssds and
\* ontologies are what they were before the call.
FailedMemberChangeKeepsOctopus ==
    [][(last'.op \in {"Octopus.add", "Octopus.remove"} /\ last'.err # "ok"
        /\ last'.arg.kind \in {"ssd", "ontology"})
        => /\ octo'.stored = octo.stored
           /\ octo'.ssds = octo.ssds
           /\ octo'.ontologies = octo.ontologies]_vars

\* C28: remove(entity) with a local entity of the endpoint's class (not
\* stored, no id) sends no delete; a delete goes out only with an integer
\* identifier.
LocalEntityIsNotDeleted ==
    (last.op = "remove")
        => /\ (last.arg.type = "entity" /\ last.arg.kind = ep
               /\ last.arg.id = None)
                => ~Sends(last, "delete")
           /\ Sends(last, "delete") => last.sent \in Keys

\* C26: a mutating call through one proxy empties the caches of that proxy
\* only: the `items` result cached by a second proxy of the same class stays
\* in place, and so does the one cached by the proxy of another class.
MutationStaysInItsProxy ==
    [][(last'.op \in MutatorOps)
        => /\ peer'.items = peer.items
           /\ peer'.other = peer.other]_vars

\* C23: the get cache never holds more than 32 entries; a get that misses
\* a full cache drops exactly one entry, and never the one used by the call
\* before; a get that misses, after an eviction as at any other time,
\* asks the server once and returns an entity made from what the server
\* holds for the key now, or the server's error when it holds nothing.
CachedKeys == {getCache[i].key : i \in DOMAIN getCache}

EvictionOnlyRefetches ==
    /\ [](Len(getCache) <= LruMaxSize)
    /\ [][last'.op = "get" =>
            LET k == last'.arg IN
            /\ last.op = "get" /\ last.err = "ok" /\ Len(getCache) > 1
                  => last.arg \in CachedKeys'
            /\ k \notin CachedKeys /\ srv[k].present =>
                  /\ last'.err = "ok"
                  /\ last'.reqs = <<"item">>
                  /\ last'.val[1].id = k
                  /\ last'.val[1].gen = srv[k].gen
                  /\ last'.val[1].born = muts
                  /\ IF Len(getCache) = LruMaxSize
                     THEN CachedKeys' =
                              (CachedKeys \ {getCache[1].key}) \cup {k}
                     ELSE CachedKeys' = CachedKeys \cup {k}
            /\ k \notin CachedKeys /\ ~srv[k].present =>
                  /\ last'.err = "ServerError"
                  /\ CachedKeys' = CachedKeys]_vars

\* key 1 was cached, dropped from the full cache, written again on the
\* server and fetched anew
RefetchedAfterEviction ==
    /\ last.op = "get" /\ last.arg = 1 /\ last.err = "ok"
    /\ last.reqs = <<"item">>
    /\ last.val[1].gen = 1
    /\ Len(getCache) = LruMaxSize
    /\ LruMaxSize + 1 \in CachedKeys
    /\ 2 \notin CachedKeys

\* C24: get_patterns on a stored, trained Octopus returns normally and
\* writes the header and one row for every line of graphs.json, whatever
\* lines of edges.json have no edge in the alignment and whatever __e items
\* name no line of edges.json: the row of a graph carries its support, as
\* many edge keys as it has __e items that resolve, in ascending order,
\* num_edges counts them, and the rows are in the order of those key lists.
Resolves(p, pos) ==
    /\ StartsWithE(pos[1])
    /\ \E i \in DOMAIN p.edges_j :
          /\ p.edges_j[i].id = pos[2]
          /\ \E k \in DOMAIN p.align : p.align[k] = p.edges_j[i].alignId

ExportSkipsAndCompletes ==
    last.op = "get_patterns" =>
        LET rows == patterns.rows
            graph_j == patterns.graph_j
        IN
        /\ last.err = "ok"
        /\ patterns.written
        /\ patterns.header = CsvHeader
        /\ Len(rows) = Len(graph_j)
        /\ \A g \in DOMAIN graph_j : \E r \in DOMAIN rows :
              /\ rows[r].pattern = graph_j[g].id
              /\ rows[r].support = graph_j[g].support
              /\ rows[r].num_edges = Len(rows[r].edge_keys)
              /\ rows[r].num_edges =
                    Cardinality({i \in DOMAIN graph_j[g].mapping :
                                    Resolves(patterns, graph_j[g].mapping[i])})
              /\ \A i \in DOMAIN rows[r].edge_keys :
                    /\ rows[r].edge_keys[i] \in 0..(Len(patterns.align) - 1)
                    /\ i > 1 => rows[r].edge_keys[i - 1] <= rows[r].edge_keys[i]
        /\ \A i, j \in DOMAIN rows :
              i < j => ListLeq(rows[i].edge_keys, rows[j].edge_keys)

\* a line of edges.json was dropped, an __e item was skipped, and the
\* second graph was written before the first
ExportedWithGaps ==
    /\ last.op = "get_patterns"
    /\ \E i \in DOMAIN patterns.edges_j :
          \A k \in DOMAIN patterns.align :
              patterns.align[k] # patterns.edges_j[i].alignId
    /\ \E g \in DOMAIN patterns.graph_j :
       \E i \in DOMAIN patterns.graph_j[g].mapping :
          /\ StartsWithE(patterns.graph_j[g].mapping[i][1])
          /\ ~Resolves(patterns, patterns.graph_j[g].mapping[i])
    /\ Len(patterns.rows) = 2
    /\ patterns.rows[1].pattern = 2
    /\ patterns.rows[1].num_edges = 1

====
